---- MODULE Spec2Model ----
(***************************************************************************)
(* State-machine model of the course-selling backend: the auth queries     *)
(* (createNewUser, loginUser, getUserById), the password utilities, and    *)
(* the course queries (isUserEnrolled, getCourseContent) over the tables   *)
(* declared in the schema.                                                 *)
(***************************************************************************)
EXTENDS Integers, Sequences, FiniteSets, TLC

VARIABLES
  users,        \* users_table: set of rows
  pc,           \* per request handler: position inside createNewUser
  purchases,    \* purchase_history_table: sequence of rows, index = purchase id
  enrollments,  \* course_enrollments_table: set of rows
  content,      \* course_content_table: sequence of rows in creation order
  last          \* the last call that returned: operation, inputs, result

vars == <<users, pc, purchases, enrollments, content, last>>
authVars == <<users, pc>>
accessVars == <<purchases, enrollments, content>>

----------------------------------------------------------------------------
(* Bounds and input sets *)

NumProcs == 2
MaxPurchases == 2
MaxContent == 2

Procs == 1..NumProcs

Names == {"", "Ann"}
Emails == {"a@x.com", "b@x.com"}
Passwords == {"pw1", "pw2"}
Salts == {"s1", "s2"}
NoRole == "undefined"
\* the values of a request field that `!field` takes for absent: the empty
\* string and undefined
Falsy == {"", NoRole}
RoleInputs == {NoRole, "admin", "consumer", "guest"}
LookupIds == 0..(Cardinality(Emails) + 1)

\* every request body, well-formed or not
AllSignupRequests ==
  [full_name : Names, email : Emails \cup {""}, password : Passwords \cup {""},
   role : RoleInputs]
\* the request bodies the auth specification draws from
SignupRequests ==
  [full_name : {"Ann"}, email : Emails \cup {""}, password : {"pw1"},
   role : {NoRole, "admin", "guest"}]
LoginRequests == [email : Emails \cup {""}, password : Passwords \cup {""}]

----------------------------------------------------------------------------
(* DbResult *)

Ok(data) == [success |-> TRUE, data |-> data]
Err(error) == [success |-> FALSE, error |-> error]

NoRow == [none |-> TRUE]

----------------------------------------------------------------------------
(* Password utilities *)

Iterations == 100000
KeyLen == 64

\* the model's spelling of the character U+0000
Nul == "\\0"

\* the passwords the password utilities are applied to: Passwords, and each
\* followed by one U+0000
HashPasswords == Passwords \cup {p \o Nul : p \in Passwords}

\* HMAC pads a key shorter than its block with zero bytes, so a password and
\* the same password followed by U+0000 are one key (passwords here are
\* shorter than the 128-byte block of SHA-512)
hmacKey(password) ==
  IF \E k \in Passwords : password = k \o Nul
  THEN CHOOSE k \in Passwords : password = k \o Nul
  ELSE password

\* pbkdf2Sync(password, salt, 100000, 64, "sha512").toString("hex"): the digest
\* is a function of the HMAC key and exactly these inputs; distinct keys or
\* salts give distinct digests.
pbkdf2Sync(password, salt) ==
  [digest |-> "sha512", key |-> hmacKey(password), salt |-> salt,
   iterations |-> Iterations, keylen |-> KeyLen]

\* salt is the value randomBytes(16).toString("hex") produced
createPasswordHash(password, salt) ==
  [hashedPassword |-> pbkdf2Sync(password, salt), salt |-> salt]

verifyPassword(password, storedHash, storedSalt) ==
  pbkdf2Sync(password, storedSalt) = storedHash

----------------------------------------------------------------------------
(* Auth queries *)

\* An error string: its text, and the columns whose values it spells out
Msg(text) == [text |-> text, values |-> {}]

MsgFieldsRequired == Msg("All fields are required: full_name, email, and password")
MsgInvalidRole == Msg("Invalid user role")
MsgEmailTaken == Msg("Email already registered")
MsgLoginRequired == Msg("Email and password are required")
MsgInvalidCredentials == Msg("Invalid email or password")
MsgDeactivated == Msg("Account is deactivated")
MsgUserNotFound == Msg("User not found")

\* the error a store call throws when the store cannot serve it; the text is
\* the store client's. (error as Error).message is its message, String(error)
\* its name and message
StoreFailure == "connect ECONNREFUSED"
errorMessage(error) == Msg(error)
StringOf(error) == Msg("Error: " \o error)

InsertColumns ==
  {"id", "full_name", "email", "hashedPassword", "saltPassword", "role", "is_active"}

\* (error as Error).message of the error the insert throws on users.email's
\* unique constraint. The text is the store client's, not this code's: the
\* driver's constraint message, or the query builder's "Failed query: <sql>
\* params: <values>" wrapping, which spells out every inserted value.
UniqueViolationMessages ==
  {[text |-> "duplicate key value violates unique constraint", values |-> {}],
   [text |-> "Failed query: insert into users", values |-> InsertColumns]}

findFirstByEmail(email) ==
  IF \E u \in users : u.email = email
  THEN CHOOSE u \in users : u.email = email
  ELSE NoRow

findFirstById(userId) ==
  IF \E u \in users : u.id = userId
  THEN CHOOSE u \in users : u.id = userId
  ELSE NoRow

\* checkEmail reporting every email as free
checkEmailNeverFound(email, storeFails) ==
  IF storeFails THEN Err(errorMessage(StoreFailure)) ELSE Ok(FALSE)

\* storeFails: the findFirst throws
checkEmail(email, storeFails) ==
  IF storeFails
  THEN Err(errorMessage(StoreFailure))
  ELSE Ok(findFirstByEmail(email) # NoRow)

\* const { hashedPassword, saltPassword, ...publicUser } = user
PublicUser(user) ==
  [f \in DOMAIN user \ {"hashedPassword", "saltPassword"} |-> user[f]]

\* role = "admin" when the request carries none
roleOfDefaultAdmin(signupData) ==
  IF signupData.role = NoRole THEN "admin" ELSE signupData.role

\* role = "consumer" when the request carries none (the destructuring default
\* applies to undefined only)
roleOf(signupData) ==
  IF signupData.role = NoRole THEN "consumer" ELSE signupData.role

\* crypto.randomUUID(): an id no row of the table carries
randomUUID == Cardinality(users) + 1

\* createNewUser up to the resolution of `await checkEmail(email)`;
\* storeFails: the store call this part makes throws
createNewUserCheck(p, signupData, storeFails) ==
  /\ pc[p].state = "idle"
  /\ IF \/ signupData.full_name \in Falsy
        \/ signupData.email \in Falsy
        \/ signupData.password \in Falsy
     THEN /\ last' = [op |-> "createNewUser", ret |-> "fields", req |-> signupData,
                      storeFails |-> storeFails, res |-> Err(MsgFieldsRequired)]
          /\ UNCHANGED pc
     ELSE IF roleOf(signupData) # "admin" /\ roleOf(signupData) # "consumer"
     THEN /\ last' = [op |-> "createNewUser", ret |-> "role", req |-> signupData,
                      storeFails |-> storeFails, res |-> Err(MsgInvalidRole)]
          /\ UNCHANGED pc
     ELSE IF ~checkEmail(signupData.email, storeFails).success
     THEN /\ last' = [op |-> "createNewUser", ret |-> "check", req |-> signupData,
                      storeFails |-> storeFails,
                      res |-> Err(checkEmail(signupData.email, storeFails).error)]
          /\ UNCHANGED pc
     ELSE IF checkEmail(signupData.email, storeFails).data
     THEN /\ last' = [op |-> "createNewUser", ret |-> "exists", req |-> signupData,
                      storeFails |-> storeFails, res |-> Err(MsgEmailTaken)]
          /\ UNCHANGED pc
     ELSE /\ pc' = [pc EXCEPT ![p] = [state |-> "checked", req |-> signupData]]
          /\ UNCHANGED last
  /\ UNCHANGED <<users, accessVars>>

\* createNewUser from createPasswordHash to its return: the insert raises the
\* unique violation when a row with the email exists, or fails with the store
\* (storeFails), and the catch returns the error's message
createNewUserInsert(p, salt, storeFails) ==
  /\ pc[p].state = "checked"
  /\ LET signupData == pc[p].req
         h == createPasswordHash(signupData.password, salt)
         newUser == [id |-> randomUUID,
                     full_name |-> signupData.full_name,
                     email |-> signupData.email,
                     hashedPassword |-> h.hashedPassword,
                     saltPassword |-> h.salt,
                     role |-> roleOf(signupData),
                     is_active |-> TRUE]
     IN IF storeFails
        THEN /\ last' = [op |-> "createNewUser", ret |-> "catch", req |-> signupData,
                         storeFails |-> storeFails,
                         res |-> Err(errorMessage(StoreFailure))]
             /\ UNCHANGED users
        ELSE IF findFirstByEmail(signupData.email) # NoRow
        THEN /\ \E message \in UniqueViolationMessages :
                  last' = [op |-> "createNewUser", ret |-> "catch", req |-> signupData,
                           storeFails |-> storeFails, res |-> Err(message)]
             /\ UNCHANGED users
        ELSE /\ users' = users \cup {newUser}
             /\ last' = [op |-> "createNewUser", ret |-> "inserted", req |-> signupData,
                         storeFails |-> storeFails, res |-> Ok(PublicUser(newUser))]
  /\ pc' = [pc EXCEPT ![p] = [state |-> "idle"]]
  /\ UNCHANGED accessVars

\* loginUser without the is_active check
loginUserNoActiveCheck(loginData, storeFails) ==
  IF loginData.email \in Falsy \/ loginData.password \in Falsy
  THEN Err(MsgLoginRequired)
  ELSE IF storeFails
  THEN Err(errorMessage(StoreFailure))
  ELSE LET user == findFirstByEmail(loginData.email)
       IN IF user = NoRow THEN Err(MsgInvalidCredentials)
          ELSE IF ~verifyPassword(loginData.password, user.hashedPassword,
                                  user.saltPassword)
          THEN Err(MsgInvalidCredentials)
          ELSE Ok(PublicUser(user))

\* loginUser telling an unknown email apart from a wrong password
loginUserNotFound(loginData, storeFails) ==
  IF loginData.email \in Falsy \/ loginData.password \in Falsy
  THEN Err(MsgLoginRequired)
  ELSE IF storeFails
  THEN Err(errorMessage(StoreFailure))
  ELSE LET user == findFirstByEmail(loginData.email)
       IN IF user = NoRow THEN Err(MsgUserNotFound)
          ELSE IF ~user.is_active THEN Err(MsgDeactivated)
          ELSE IF ~verifyPassword(loginData.password, user.hashedPassword,
                                  user.saltPassword)
          THEN Err(MsgInvalidCredentials)
          ELSE Ok(PublicUser(user))

loginUser(loginData, storeFails) ==
  IF loginData.email \in Falsy \/ loginData.password \in Falsy
  THEN Err(MsgLoginRequired)
  ELSE IF storeFails
  THEN Err(errorMessage(StoreFailure))
  ELSE LET user == findFirstByEmail(loginData.email)
       IN IF user = NoRow THEN Err(MsgInvalidCredentials)
          ELSE IF ~user.is_active THEN Err(MsgDeactivated)
          ELSE IF ~verifyPassword(loginData.password, user.hashedPassword,
                                  user.saltPassword)
          THEN Err(MsgInvalidCredentials)
          ELSE Ok(PublicUser(user))

getUserById(userId, storeFails) ==
  IF storeFails
  THEN Err(errorMessage(StoreFailure))
  ELSE LET user == findFirstById(userId)
       IN IF user = NoRow THEN Err(MsgUserNotFound)
          ELSE IF ~user.is_active THEN Err(MsgDeactivated)
          ELSE Ok(PublicUser(user))

\* a loginUser call; `found` is the row the lookup saw; storeFails: the
\* findFirst throws
LoginUser(loginData, storeFails) ==
  /\ last' = [op |-> "loginUser", req |-> loginData,
              found |-> findFirstByEmail(loginData.email),
              storeFails |-> storeFails,
              res |-> loginUser(loginData, storeFails)]
  /\ UNCHANGED <<authVars, accessVars>>

GetUserById(userId, storeFails) ==
  /\ last' = [op |-> "getUserById", req |-> userId,
              found |-> findFirstById(userId),
              storeFails |-> storeFails,
              res |-> getUserById(userId, storeFails)]
  /\ UNCHANGED <<authVars, accessVars>>

\* users.is_active set to false by whoever administers the table
DeactivateUser(userId) ==
  /\ \E u \in users :
       /\ u.id = userId
       /\ u.is_active
       /\ users' = (users \ {u}) \cup {[u EXCEPT !.is_active = FALSE]}
  /\ UNCHANGED <<pc, last, accessVars>>

----------------------------------------------------------------------------
(* Specification of the auth queries *)

Init ==
  /\ users = {}
  /\ pc = [p \in Procs |-> [state |-> "idle"]]
  /\ purchases = <<>>
  /\ enrollments = {}
  /\ content = <<>>
  /\ last = [op |-> "none"]

Next ==
  \/ \E p \in Procs, signupData \in SignupRequests : createNewUserCheck(p, signupData, FALSE)
  \/ \E p \in Procs, salt \in Salts : createNewUserInsert(p, salt, FALSE)
  \/ \E loginData \in LoginRequests : LoginUser(loginData, FALSE)
  \/ \E userId \in LookupIds : GetUserById(userId, FALSE)
  \/ \E userId \in LookupIds : DeactivateUser(userId)

Spec == Init /\ [][Next]_vars

----------------------------------------------------------------------------
(* Specification of signup: every request body, the store failing or not *)

\* request bodies with each required field present, empty or absent, and the
\* role absent, empty, valid or invalid
SignupBodies ==
  [full_name : {"Ann"} \cup Falsy, email : Emails \cup Falsy,
   password : {"pw1"} \cup Falsy, role : RoleInputs \cup {""}]

\* one request handler
SignupProc == CHOOSE p \in Procs : \A q \in Procs : p <= q

NextSignup ==
  \/ \E signupData \in SignupBodies, storeFails \in BOOLEAN :
       createNewUserCheck(SignupProc, signupData, storeFails)
  \/ \E salt \in Salts, storeFails \in BOOLEAN :
       createNewUserInsert(SignupProc, salt, storeFails)

SpecSignup == Init /\ [][NextSignup]_vars

----------------------------------------------------------------------------
(* Specification of the password utilities *)

\* createPasswordHash(password), randomBytes yielding salt
CreatePasswordHash(password, salt) ==
  /\ last' = [op |-> "createPasswordHash", password |-> password,
              created |-> createPasswordHash(password, salt)]
  /\ UNCHANGED <<authVars, accessVars>>

\* verifyPassword(password, hash, salt) on the pair last created; `prev` is
\* the verifyPassword call before this one on the same pair
VerifyPassword(password) ==
  /\ last.op \in {"createPasswordHash", "verifyPassword"}
  /\ last' = [op |-> "verifyPassword", password |-> last.password,
              created |-> last.created, req |-> password,
              res |-> verifyPassword(password, last.created.hashedPassword,
                                     last.created.salt),
              prev |-> IF last.op = "verifyPassword"
                       THEN [req |-> last.req, res |-> last.res]
                       ELSE NoRow]
  /\ UNCHANGED <<authVars, accessVars>>

NextHash ==
  \/ \E password \in HashPasswords, salt \in Salts : CreatePasswordHash(password, salt)
  \/ \E password \in HashPasswords : VerifyPassword(password)

SpecHash == Init /\ [][NextHash]_vars

----------------------------------------------------------------------------
(* Course queries *)

UserIds == {"u1", "u2"}
CourseIds == {"c1", "c2"}

\* course_content.order is nullable; the set column holds 1, 2, 3, ...
NullOrder == 0
Orders == {NullOrder, 1, 2}

MsgIdsRequired == Msg("User ID and Course ID are required!")
MsgAccessDenied == Msg("Access denied. User is not enrolled in the course.")

\* rows of course_enrollments with this course_id and user_id
selectEnrollments(userId, courseId) ==
  {e \in enrollments : e.course_id = courseId /\ e.user_id = userId}

\* `enrollment` is computed from the rows and not used: data is the literal true
\* storeFails: the select throws
isUserEnrolled(userId, courseId, storeFails) ==
  IF userId \in Falsy \/ courseId \in Falsy
  THEN Err(MsgIdsRequired)
  ELSE IF storeFails
  THEN Err(StringOf(StoreFailure))
  ELSE LET enrollment == selectEnrollments(userId, courseId) # {}
       IN Ok(TRUE)

\* rows of course_content with this course_id: no other condition
selectContent(courseId) ==
  {content[i] : i \in {j \in DOMAIN content : content[j].course_id = courseId}}

\* the select has no ORDER BY: the rows come back in any order
SelectOrders(rows) ==
  {f \in [1..Cardinality(rows) -> rows] : \A r \in rows : \E i \in DOMAIN f : f[i] = r}

\* courseContent is the array the content select resolved to; an array is
\* never falsy, so the "Course content not found." return is not taken
\* lookupFails: the enrollment select of isUserEnrolled throws; selectFails:
\* the content select throws
getCourseContent(userId, courseId, courseContent, lookupFails, selectFails) ==
  IF userId \in Falsy \/ courseId \in Falsy
  THEN Err(MsgIdsRequired)
  ELSE LET isEnrolled == isUserEnrolled(userId, courseId, lookupFails)
       IN IF ~isEnrolled.success \/ ~isEnrolled.data
          THEN Err(MsgAccessDenied)
          ELSE IF selectFails
          THEN Err(StringOf(StoreFailure))
          ELSE Ok(courseContent)

\* a call of isUserEnrolled; `rows` are the enrollment rows its select saw
IsUserEnrolled(userId, courseId, storeFails) ==
  /\ last' = [op |-> "isUserEnrolled",
              req |-> [userId |-> userId, courseId |-> courseId],
              rows |-> selectEnrollments(userId, courseId),
              storeFails |-> storeFails,
              res |-> isUserEnrolled(userId, courseId, storeFails)]
  /\ UNCHANGED <<authVars, accessVars>>

GetCourseContent(userId, courseId, lookupFails, selectFails) ==
  /\ \E courseContent \in SelectOrders(selectContent(courseId)) :
       last' = [op |-> "getCourseContent",
                req |-> [userId |-> userId, courseId |-> courseId],
                rows |-> selectEnrollments(userId, courseId),
                lookupFails |-> lookupFails, selectFails |-> selectFails,
                res |-> getCourseContent(userId, courseId, courseContent,
                                         lookupFails, selectFails)]
  /\ UNCHANGED <<authVars, accessVars>>

----------------------------------------------------------------------------
(* Purchase workflow: pending -> completed -> refunded *)

MsgInvalidTransition == Msg("InvalidTransition")
MsgPurchaseNotFound == Msg("NotFound")

enrollmentOf(table, userId, courseId) ==
  IF \E e \in table : e.user_id = userId /\ e.course_id = courseId
  THEN CHOOSE e \in table : e.user_id = userId /\ e.course_id = courseId
  ELSE NoRow

\* enrollments with the pair's row created or updated to has_access
setAccess(userId, courseId, hasAccess) ==
  {e \in enrollments : ~(e.user_id = userId /\ e.course_id = courseId)}
    \cup {[user_id |-> userId, course_id |-> courseId, has_access |-> hasAccess]}

\* user initiates purchase: insert with status 'pending'
CreatePurchase(userId, courseId) ==
  /\ Len(purchases) < MaxPurchases
  /\ purchases' = Append(purchases,
                         [user_id |-> userId, course_id |-> courseId,
                          status |-> "pending"])
  /\ UNCHANGED <<authVars, enrollments, content, last>>

\* the tables and result after "payment confirmed" for purchaseId
confirmPayment(purchaseId) ==
  IF purchaseId \notin DOMAIN purchases
  THEN [purchases |-> purchases, enrollments |-> enrollments,
        res |-> Err(MsgPurchaseNotFound)]
  ELSE LET p == purchases[purchaseId]
       IN IF p.status # "pending"
          THEN [purchases |-> purchases, enrollments |-> enrollments,
                res |-> Err(MsgInvalidTransition)]
          ELSE LET updated == [p EXCEPT !.status = "completed"]
                   table == setAccess(p.user_id, p.course_id, TRUE)
               IN [purchases |-> [purchases EXCEPT ![purchaseId] = updated],
                   enrollments |-> table,
                   res |-> Ok([purchase |-> updated,
                               enrollment |-> enrollmentOf(table, p.user_id, p.course_id)])]

\* processRefund that also refunds a pending purchase
processRefundFromAnyOpen(purchaseId) ==
  IF purchaseId \notin DOMAIN purchases
  THEN [purchases |-> purchases, enrollments |-> enrollments,
        res |-> Err(MsgPurchaseNotFound)]
  ELSE LET p == purchases[purchaseId]
       IN IF p.status = "refunded"
          THEN [purchases |-> purchases, enrollments |-> enrollments,
                res |-> Err(MsgInvalidTransition)]
          ELSE LET updated == [p EXCEPT !.status = "refunded"]
                   table == setAccess(p.user_id, p.course_id, FALSE)
               IN [purchases |-> [purchases EXCEPT ![purchaseId] = updated],
                   enrollments |-> table,
                   res |-> Ok([purchase |-> updated,
                               enrollment |-> enrollmentOf(table, p.user_id, p.course_id)])]

\* the tables and result after "refund processed" for purchaseId
processRefund(purchaseId) ==
  IF purchaseId \notin DOMAIN purchases
  THEN [purchases |-> purchases, enrollments |-> enrollments,
        res |-> Err(MsgPurchaseNotFound)]
  ELSE LET p == purchases[purchaseId]
       IN IF p.status # "completed"
          THEN [purchases |-> purchases, enrollments |-> enrollments,
                res |-> Err(MsgInvalidTransition)]
          ELSE LET updated == [p EXCEPT !.status = "refunded"]
                   table == setAccess(p.user_id, p.course_id, FALSE)
               IN [purchases |-> [purchases EXCEPT ![purchaseId] = updated],
                   enrollments |-> table,
                   res |-> Ok([purchase |-> updated,
                               enrollment |-> enrollmentOf(table, p.user_id, p.course_id)])]

ConfirmPayment(purchaseId) ==
  /\ purchases' = confirmPayment(purchaseId).purchases
  /\ enrollments' = confirmPayment(purchaseId).enrollments
  /\ last' = [op |-> "confirmPayment", req |-> purchaseId,
              res |-> confirmPayment(purchaseId).res]
  /\ UNCHANGED <<authVars, content>>

ProcessRefund(purchaseId) ==
  /\ purchases' = processRefund(purchaseId).purchases
  /\ enrollments' = processRefund(purchaseId).enrollments
  /\ last' = [op |-> "processRefund", req |-> purchaseId,
              res |-> processRefund(purchaseId).res]
  /\ UNCHANGED <<authVars, content>>

----------------------------------------------------------------------------
(* Specification of the purchase workflow and the access check *)

ContentRow(id, courseId, order, isDeleted) ==
  [id |-> id, course_id |-> courseId, order |-> order, is_deleted |-> isDeleted]

SeedContent ==
  <<ContentRow(1, "c1", 2, FALSE), ContentRow(2, "c1", 1, FALSE),
    ContentRow(3, "c2", NullOrder, TRUE)>>

PurchaseIds == 1..(MaxPurchases + 1)

InitAccess ==
  /\ users = {}
  /\ pc = [p \in Procs |-> [state |-> "idle"]]
  /\ purchases = <<>>
  /\ enrollments = {}
  /\ content = SeedContent
  /\ last = [op |-> "none"]

NextAccess ==
  \/ \E userId \in UserIds, courseId \in CourseIds : CreatePurchase(userId, courseId)
  \/ \E purchaseId \in PurchaseIds : ConfirmPayment(purchaseId)
  \/ \E purchaseId \in PurchaseIds : ProcessRefund(purchaseId)
  \/ \E userId \in UserIds \cup {""}, courseId \in CourseIds \cup {""} :
       IsUserEnrolled(userId, courseId, FALSE)
  \/ \E userId \in UserIds \cup {""}, courseId \in CourseIds \cup {""} :
       GetCourseContent(userId, courseId, FALSE, FALSE)

SpecAccess == InitAccess /\ [][NextAccess]_vars

----------------------------------------------------------------------------
(* Specification of content retrieval over the tables it may find *)

\* the course of the ordering example: order values 3, 1, null, 2
ExampleContent ==
  <<ContentRow(1, "c1", 3, FALSE), ContentRow(2, "c1", 1, FALSE),
    ContentRow(3, "c1", NullOrder, FALSE), ContentRow(4, "c1", 2, FALSE)>>

ContentTables ==
  {ExampleContent} \cup
  UNION {{[i \in 1..n |-> ContentRow(i, t[i].course_id, t[i].order, t[i].is_deleted)] :
            t \in [1..n -> [course_id : CourseIds, order : Orders,
                            is_deleted : BOOLEAN]]} :
         n \in 0..MaxContent}

\* u1's purchase of c1 not made, completed, and refunded
EnrollmentStates ==
  {[purchases |-> <<>>, enrollments |-> {}],
   [purchases |-> <<[user_id |-> "u1", course_id |-> "c1", status |-> "completed"]>>,
    enrollments |-> {[user_id |-> "u1", course_id |-> "c1", has_access |-> TRUE]}],
   [purchases |-> <<[user_id |-> "u1", course_id |-> "c1", status |-> "refunded"]>>,
    enrollments |-> {[user_id |-> "u1", course_id |-> "c1", has_access |-> FALSE]}]}

InitContent ==
  /\ users = {}
  /\ pc = [p \in Procs |-> [state |-> "idle"]]
  /\ \E e \in EnrollmentStates :
       /\ purchases = e.purchases
       /\ enrollments = e.enrollments
  /\ content \in ContentTables
  /\ last = [op |-> "none"]

NextContent ==
  \/ \E userId \in UserIds \cup {""}, courseId \in CourseIds \cup {""} :
       IsUserEnrolled(userId, courseId, FALSE)
  \/ \E userId \in UserIds \cup {""}, courseId \in CourseIds \cup {""} :
       GetCourseContent(userId, courseId, FALSE, FALSE)

SpecContent == InitContent /\ [][NextContent]_vars

----------------------------------------------------------------------------
(* Specification of the public operations with the store failing or not *)

InitFault ==
  /\ users = {}
  /\ pc = [p \in Procs |-> [state |-> "idle"]]
  /\ \E e \in EnrollmentStates :
       /\ purchases = e.purchases
       /\ enrollments = e.enrollments
  /\ content = SeedContent
  /\ last = [op |-> "none"]

NextFault ==
  \/ \E signupData \in SignupRequests, storeFails \in BOOLEAN :
       createNewUserCheck(SignupProc, signupData, storeFails)
  \/ \E salt \in Salts, storeFails \in BOOLEAN :
       createNewUserInsert(SignupProc, salt, storeFails)
  \/ \E loginData \in LoginRequests, storeFails \in BOOLEAN :
       LoginUser(loginData, storeFails)
  \/ \E userId \in LookupIds, storeFails \in BOOLEAN :
       GetUserById(userId, storeFails)
  \/ \E userId \in UserIds \cup {""}, courseId \in CourseIds \cup {""},
        storeFails \in BOOLEAN :
       IsUserEnrolled(userId, courseId, storeFails)
  \/ \E userId \in UserIds \cup {""}, courseId \in CourseIds \cup {""},
        lookupFails \in BOOLEAN, selectFails \in BOOLEAN :
       GetCourseContent(userId, courseId, lookupFails, selectFails)

SpecFault == InitFault /\ [][NextFault]_vars

----------------------------------------------------------------------------
(* Properties of the course queries and the purchase workflow *)

\* C1: getCourseContent(u, c) with non-empty ids, when no enrollment row exists
\* for (u, c), fails with "Access denied" and returns no content rows.
C1_Claim ==
  ( /\ last.op = "getCourseContent"
    /\ last.req.userId # ""
    /\ last.req.courseId # ""
    /\ last.rows = {} )
    => last.res = Err(MsgAccessDenied)

\* C2: isUserEnrolled(u, c) returns true if and only if an enrollment row for
\* (u, c) exists with has_access = true; with no row, or has_access = false,
\* it returns false as a successful result.
C2_Claim ==
  ( /\ last.op = "isUserEnrolled"
    /\ last.req.userId # ""
    /\ last.req.courseId # "" )
    => last.res = Ok(\E e \in last.rows : e.has_access)

\* C3: after confirmPayment of a pending purchase its status is completed and
\* the access check of its (user, course) returns true; after processRefund
\* its status is refunded, the enrollment row still exists with has_access =
\* false, and the access check and getCourseContent deny access.
C3_Claim ==
  /\ (last.op = "confirmPayment" /\ last.res.success)
       => LET p == last.res.data.purchase
          IN /\ p.status = "completed"
             /\ purchases[last.req].status = "completed"
             /\ isUserEnrolled(p.user_id, p.course_id, FALSE) = Ok(TRUE)
  /\ (last.op = "processRefund" /\ last.res.success)
       => LET p == last.res.data.purchase
              e == enrollmentOf(enrollments, p.user_id, p.course_id)
          IN /\ p.status = "refunded"
             /\ purchases[last.req].status = "refunded"
             /\ e # NoRow
             /\ ~e.has_access
             /\ isUserEnrolled(p.user_id, p.course_id, FALSE) = Ok(FALSE)
             /\ \A courseContent \in SelectOrders(selectContent(p.course_id)) :
                  getCourseContent(p.user_id, p.course_id, courseContent, FALSE, FALSE)
                    = Err(MsgAccessDenied)

C4_Step ==
  /\ \A purchaseId \in DOMAIN purchases :
       purchases'[purchaseId].status # purchases[purchaseId].status
         => <<purchases[purchaseId].status, purchases'[purchaseId].status>>
              \in {<<"pending", "completed">>, <<"completed", "refunded">>}
  /\ ( /\ last' # last
       /\ last'.op \in {"confirmPayment", "processRefund"}
       /\ last'.req \in DOMAIN purchases
       /\ \/ purchases[last'.req].status = "refunded"
          \/ /\ last'.op = "processRefund"
             /\ purchases[last'.req].status = "pending" )
       => /\ last'.res = Err(MsgInvalidTransition)
          /\ purchases' = purchases
          /\ enrollments' = enrollments

\* C4: a purchase's status only ever goes pending -> completed or completed ->
\* refunded; processRefund on a pending purchase, and confirmPayment or
\* processRefund on a refunded one, fails with InvalidTransition and leaves
\* the purchase and enrollment tables unchanged.
C4_Theorem == [][C4_Step]_vars

C4_Witness ==
  /\ last.op = "processRefund"
  /\ last.res = Err(MsgInvalidTransition)
  /\ last.req \in DOMAIN purchases
  /\ purchases[last.req].status = "pending"

\* the content rows of the course that are not soft-deleted
VisibleContent(courseId) == {r \in selectContent(courseId) : ~r.is_deleted}

\* a may come before b: order ascending, rows without order last and among
\* themselves in creation order
InOrder(a, b) ==
  IF a.order # NullOrder /\ b.order # NullOrder THEN a.order <= b.order
  ELSE IF a.order # NullOrder THEN TRUE
  ELSE IF b.order # NullOrder THEN FALSE
  ELSE a.id < b.id

\* C10: for a user whose enrollment row has has_access = true, a successful
\* getCourseContent returns exactly the course's content rows that are not
\* soft-deleted, sorted by order ascending, with the rows whose order is unset
\* after all ordered rows in creation order.
C10_Claim ==
  ( /\ last.op = "getCourseContent"
    /\ \E e \in last.rows : e.has_access
    /\ last.res.success )
    => LET data == last.res.data
       IN /\ {data[i] : i \in DOMAIN data} = VisibleContent(last.req.courseId)
          /\ Len(data) = Cardinality(VisibleContent(last.req.courseId))
          /\ \A i, j \in DOMAIN data : i < j => InOrder(data[i], data[j])

----------------------------------------------------------------------------
(* Properties of the auth queries *)

ValidSignup(signupData) ==
  /\ signupData.full_name # ""
  /\ signupData.email # ""
  /\ signupData.password # ""
  /\ roleOf(signupData) \in {"admin", "consumer"}

\* the password the row's digest was derived from (no password of the auth
\* specification ends in U+0000, so the key is the password)
CorrectPassword(user, password) == user.hashedPassword.key = password

SecretColumns == {"hashedPassword", "saltPassword"}

UniqueEmail == \A u, v \in users : u.email = v.email => u = v

C5_Step ==
  \* a signup that starts when its email is in the table never reaches the insert
  /\ \A p \in Procs :
       (pc[p].state = "idle" /\ pc'[p].state = "checked")
         => \A u \in users : u.email # pc'[p].req.email
  \* it returns "Email already registered" and adds no user
  /\ ( /\ pc' = pc
       /\ last' # last
       /\ last'.op = "createNewUser"
       /\ ValidSignup(last'.req)
       /\ \E u \in users : u.email = last'.req.email )
         => (last'.res = Err(MsgEmailTaken) /\ users' = users)
  \* a signup whose email is still free at its insert succeeds and adds the user
  /\ \A p \in Procs :
       ( /\ pc[p].state = "checked"
         /\ pc'[p].state = "idle"
         /\ \A u \in users : u.email # pc[p].req.email )
         => /\ last'.res.success
            /\ \E u \in users' \ users :
                 /\ u.email = pc[p].req.email
                 /\ users' = users \cup {u}
                 /\ last'.res.data = PublicUser(u)

\* C5: after any sequence of createNewUser calls the users table holds at most
\* one row per email; a valid signup whose email is free succeeds and adds the
\* row, and every signup that starts after a row with its email exists fails
\* with "Email already registered" (EmailTaken) and adds no row.
C5_Theorem == []UniqueEmail /\ [][C5_Step]_vars

C5_Witness ==
  /\ last.op = "createNewUser"
  /\ last.ret = "exists"
  /\ last.res = Err(MsgEmailTaken)
  /\ \E u \in users : u.email = last.req.email

\* C6: when two signups with the same email both pass the existence check
\* before either inserts, exactly one row is inserted and the signup whose
\* insert is refused returns the EmailTaken failure of the sequential case.
C6_Claim ==
  /\ UniqueEmail
  /\ (last.op = "createNewUser" /\ last.ret = "catch")
       => last.res = Err(MsgEmailTaken)

\* C7: loginUser with the correct email and password of a user whose
\* is_active is false fails with "Account is deactivated" (not with "Invalid
\* email or password"), getUserById on such a user fails the same way, and
\* neither ever succeeds for an inactive user.
C7_Theorem ==
  /\ ( /\ last.op = "loginUser"
       /\ last.found # NoRow
       /\ ~last.found.is_active
       /\ last.req.password # ""
       /\ CorrectPassword(last.found, last.req.password) )
       => last.res = Err(MsgDeactivated)
  /\ ( /\ last.op = "getUserById"
       /\ last.found # NoRow
       /\ ~last.found.is_active )
       => last.res = Err(MsgDeactivated)
  /\ ( /\ last.op \in {"loginUser", "getUserById"}
       /\ last.found # NoRow
       /\ ~last.found.is_active )
       => ~last.res.success

C7_Witness ==
  /\ last.op = "loginUser"
  /\ last.found # NoRow
  /\ ~last.found.is_active
  /\ CorrectPassword(last.found, last.req.password)
  /\ last.res = Err(MsgDeactivated)

\* C8: loginUser returns one and the same failure, "Invalid email or
\* password", when the email is not registered and when the email belongs to
\* an active user and the password is wrong.
C8_Theorem ==
  ( /\ last.op = "loginUser"
    /\ last.req.email # ""
    /\ last.req.password # ""
    /\ \/ last.found = NoRow
       \/ /\ last.found.is_active
          /\ ~CorrectPassword(last.found, last.req.password) )
    => last.res = Err(MsgInvalidCredentials)

C8_Witness ==
  /\ last.op = "loginUser"
  /\ last.found # NoRow
  /\ last.found.is_active
  /\ last.req.password # ""
  /\ ~CorrectPassword(last.found, last.req.password)
  /\ last.res = Err(MsgInvalidCredentials)

\* C9: every successful result of createNewUser, loginUser and getUserById
\* carries a user without the hashedPassword and saltPassword fields, and no
\* failure result of these operations spells out the password, the hash or
\* the salt.
C9_Claim ==
  last.op \in {"createNewUser", "loginUser", "getUserById"}
    => IF last.res.success
       THEN DOMAIN last.res.data \cap SecretColumns = {}
       ELSE last.res.error.values \cap (SecretColumns \cup {"password"}) = {}

----------------------------------------------------------------------------
(* Properties of the password utilities *)

\* C11: for every password p and every (hash, salt) that createPasswordHash(p)
\* produced, verifyPassword(p, hash, salt) is true, verifyPassword(q, hash,
\* salt) is false for every q different from p, and verifyPassword called
\* again with the same inputs gives the same result.
C11_Claim ==
  last.op = "verifyPassword"
    => /\ last.res = (last.req = last.password)
       /\ (last.prev # NoRow /\ last.prev.req = last.req) => last.prev.res = last.res

----------------------------------------------------------------------------
(* Properties of signup validation *)

MissingField(signupData) ==
  \/ signupData.full_name \in Falsy
  \/ signupData.email \in Falsy
  \/ signupData.password \in Falsy

RoleOutside(signupData) == signupData.role \notin {NoRole, "admin", "consumer"}

C12_Step ==
  /\ (last' # last /\ last'.op = "createNewUser")
       => /\ MissingField(last'.req)
               => /\ last'.res = Err(MsgFieldsRequired)
                  /\ users' = users
                  /\ pc' = pc
          /\ (~MissingField(last'.req) /\ RoleOutside(last'.req))
               => /\ last'.res = Err(MsgInvalidRole)
                  /\ users' = users
                  /\ pc' = pc
          /\ (last'.res.success /\ last'.req.role = NoRole)
               => \E u \in users' \ users :
                    /\ users' = users \cup {u}
                    /\ u.email = last'.req.email
                    /\ u.role = "consumer"
                    /\ u.is_active
                    /\ last'.res.data = PublicUser(u)
  /\ \A p \in Procs :
       pc'[p].state = "checked"
         => ~MissingField(pc'[p].req) /\ ~RoleOutside(pc'[p].req)

\* C12: createNewUser with an empty or absent full_name, email or password
\* returns the all-fields-required error, and with a role outside {admin,
\* consumer} the invalid-role error; both are returned in the step the call
\* starts, whether or not the store can be reached, with the users table
\* unchanged and nothing left pending; a signup that gives no role and
\* succeeds adds one user, with role consumer and is_active true.
C12_Theorem == [][C12_Step]_vars

\* a validation error returned while the store fails, the table holding an
\* active consumer
C12_Witness ==
  /\ last.op = "createNewUser"
  /\ last.ret \in {"fields", "role"}
  /\ last.storeFails
  /\ \E u \in users : u.role = "consumer" /\ u.is_active

----------------------------------------------------------------------------
(* Properties of error translation *)

\* the error kind each message of the operations stands for
KindOf(error) ==
  CASE error \in {MsgFieldsRequired, MsgLoginRequired, MsgIdsRequired} -> "ValidationError"
    [] error = MsgInvalidRole -> "InvalidRole"
    [] error = MsgEmailTaken -> "EmailTaken"
    [] error = MsgInvalidCredentials -> "InvalidCredentials"
    [] error = MsgDeactivated -> "Deactivated"
    [] error = MsgUserNotFound -> "NotFound"
    [] error = MsgAccessDenied -> "AccessDenied"
    [] OTHER -> "none"

\* the last call made a store call and that call threw
StoreCallFailed ==
  \/ /\ last.op = "createNewUser"
     /\ last.storeFails
     /\ last.ret \in {"check", "catch"}
  \/ /\ last.op = "loginUser"
     /\ last.storeFails
     /\ last.req.email \notin Falsy /\ last.req.password \notin Falsy
  \/ /\ last.op = "getUserById"
     /\ last.storeFails
  \/ /\ last.op = "isUserEnrolled"
     /\ last.storeFails
     /\ last.req.userId \notin Falsy /\ last.req.courseId \notin Falsy
  \/ /\ last.op = "getCourseContent"
     /\ last.req.userId \notin Falsy /\ last.req.courseId \notin Falsy
     /\ \/ last.lookupFails
        \/ /\ last.selectFails
           /\ isUserEnrolled(last.req.userId, last.req.courseId, FALSE) = Ok(TRUE)

\* C13: when a store call of createNewUser, loginUser, getUserById,
\* isUserEnrolled or getCourseContent fails, the operation returns a failure
\* result that is not the raw low-level error and whose kind is StoreError
\* (so a failed enrollment lookup in getCourseContent is not AccessDenied).
C13_Claim ==
  StoreCallFailed
    => /\ ~last.res.success
       /\ last.res.error \notin {errorMessage(StoreFailure), StringOf(StoreFailure)}
       /\ KindOf(last.res.error) = "StoreError"

====
